---- MODULE Spec2Model ----
(***************************************************************************)
(* Model of 3body.go: the n-body simulation nBody, its force law, its      *)
(* integration step, its circle rasteriser and the frame loop that writes  *)
(* encoded frames to the encoder's pipe, for one or two concurrent         *)
(* requests.                                                               *)
(*                                                                         *)
(* float64 values are modelled as exact real numbers: a rational n/d in    *)
(* lowest terms, or the square root of one (sq = TRUE).  A value with      *)
(* d = 0 stands for a non-finite float (Inf, NaN).  Rounding of float64    *)
(* operations is not represented.                                          *)
(***************************************************************************)
EXTENDS Integers, Sequences, FiniteSets, TLC

VARIABLES
    rngSrc,     \* state of the process-wide math/rand source (position in its stream)
    rngUsers,   \* the runs that have read and advanced rngSrc
    pc,         \* per run: "off" (no request), "init" (lines 156-159), "loop" (161-184)
    particles,  \* per run: the particles slice
    ticks,      \* per run: iterations of the frame loop completed
    sinkOpen,   \* per run: the encoder's stdin pipe still accepts writes
    encodeErr,  \* per run: some png.Encode call has returned an error
    written,    \* per run: frames the sink has accepted
    img,        \* per run: the frame handed to the last png.Encode call
    call        \* a single call of one of nBody's closures: arguments and result

vars == <<rngSrc, rngUsers, pc, particles, ticks, sinkOpen, encodeErr, written, img, call>>

simVars == <<rngSrc, rngUsers, pc, particles, ticks, sinkOpen, encodeErr, written, img>>

----------------------------------------------------------------------------
(* Bounds of the model *)

MaxTicks == 2

MaxCoord == 2

MaxMass == 2

Runs == {1, 2}

----------------------------------------------------------------------------
(* Constants of nBody, lines 88-96 *)

greenIndex == 1

size == 800

count == 3

epoch == 5

drawRadius == 8

----------------------------------------------------------------------------
(* float64 arithmetic, exact *)

Abs(i) == IF i < 0 THEN -i ELSE i

RECURSIVE GCD(_, _)
GCD(a, b) == IF b = 0 THEN a ELSE GCD(b, a % b)

NonFinite == [n |-> 0, d |-> 0, sq |-> FALSE]

Rat(n, d) ==
    IF d = 0 THEN NonFinite
    ELSE LET k == GCD(Abs(n), Abs(d))
             s == IF d < 0 THEN -1 ELSE 1
         IN  [n |-> (s * n) \div k, d |-> Abs(d) \div k, sq |-> FALSE]

Float(i) == [n |-> i, d |-> 1, sq |-> FALSE]

RAdd(a, b) ==
    IF a.d = 0 \/ b.d = 0 THEN NonFinite
    ELSE LET k == GCD(a.d, b.d)
         IN  Rat(a.n * (b.d \div k) + b.n * (a.d \div k), (a.d \div k) * b.d)

RNeg(a) == [a EXCEPT !.n = -a.n]

RSub(a, b) == RAdd(a, RNeg(b))

RMul(a, b) ==
    IF a.d = 0 \/ b.d = 0 THEN NonFinite
    ELSE LET k1 == GCD(Abs(a.n), b.d)
             k2 == GCD(Abs(b.n), a.d)
         IN  [n |-> (a.n \div k1) * (b.n \div k2),
              d |-> (a.d \div k2) * (b.d \div k1),
              sq |-> FALSE]

RDiv(a, b) ==
    IF a.d = 0 \/ b.d = 0 \/ b.n = 0 THEN NonFinite
    ELSE RMul(a, Rat(b.d, b.n))

\* math.Sqrt of a non-negative value
Sqrt(v) == IF v.n = 0 \/ v.d = 0 THEN v ELSE [v EXCEPT !.sq = TRUE]

\* math.Pow(v, y); nBody only raises to the power 2
Pow(v, y) ==
    CASE y = 2 -> IF v.sq THEN [v EXCEPT !.sq = FALSE] ELSE RMul(v, v)

\* int(v): conversion of a float64 to int truncates toward zero
Trunc(v) == IF v.n >= 0 THEN v.n \div v.d ELSE -((-v.n) \div v.d)

----------------------------------------------------------------------------
(* nBody's constants of float type *)

g == Rat(1, 10)

m == Float(1)

----------------------------------------------------------------------------
(* The process-wide source of math/rand.  NormStream is a finite sample of *)
(* the standard-normal stream it yields, in units of 6/size, so that the   *)
(* positions newParticle computes are whole numbers.  The source's state   *)
(* is the position of the next value.                                      *)

NormStream == <<-1, 0, 0, 0, 1, 1, -1, 2, -1, 2, -3, 1>>

\* the value rand.NormFloat64() returns in state src
NormFloat64(src) == Rat(6 * NormStream[src], size)

\* the state rand.NormFloat64() leaves the source in
RngNext(src) == (src % Len(NormStream)) + 1

----------------------------------------------------------------------------
(* The closures of nBody *)

\* lines 98-102
particle(mass, xPosition, yPosition, xVelocity, yVelocity) ==
    [mass |-> mass, xPosition |-> xPosition, yPosition |-> yPosition,
     xVelocity |-> xVelocity, yVelocity |-> yVelocity]

\* lines 119-121; force{} is the zero vector
force(x, y) == [x |-> x, y |-> y]

\* lines 104-107
distanceFn(p1, p2) ==
    Sqrt(RAdd(Pow(RSub(p1.xPosition, p2.xPosition), 2),
              Pow(RSub(p1.yPosition, p2.yPosition), 2)))

\* lines 109-117, called with the source in state src: x is drawn first, then y
newParticle(src) ==
    particle(m,
             RDiv(RMul(NormFloat64(src), Float(size)), Float(6)),
             RDiv(RMul(NormFloat64(RngNext(src)), Float(size)), Float(6)),
             Float(0),
             Float(0))

\* forceFn with its masses taken from p1 alone
forceFnOwnMass(p1, p2) ==
    LET d == distanceFn(p1, p2)
    IN  IF d = Float(0) THEN force(Float(0), Float(0))
        ELSE LET c == RDiv(RMul(RMul(g, p1.mass), p1.mass), Pow(d, 2))
             IN  force(RMul(c, RSub(p2.xPosition, p1.xPosition)),
                       RMul(c, RSub(p2.yPosition, p1.yPosition)))

\* forceFn without the test for a zero distance
forceFnNoGuard(p1, p2) ==
    LET d == distanceFn(p1, p2)
        c == RDiv(RMul(RMul(g, p1.mass), p2.mass), Pow(d, 2))
    IN  force(RMul(c, RSub(p2.xPosition, p1.xPosition)),
              RMul(c, RSub(p2.yPosition, p1.yPosition)))

\* lines 123-134
forceFn(p1, p2) ==
    LET d == distanceFn(p1, p2)
    IN  IF d = Float(0) THEN force(Float(0), Float(0))
        ELSE LET c == RDiv(RMul(RMul(g, p1.mass), p2.mass), Pow(d, 2))
             IN  force(RMul(c, RSub(p2.xPosition, p1.xPosition)),
                       RMul(c, RSub(p2.yPosition, p1.yPosition)))

\* updateFn with the mass field left out of the literal (its zero value)
updateFnNoMass(p, f) ==
    particle(Float(0),
             RAdd(p.xPosition, RMul(Float(epoch), p.xVelocity)),
             RAdd(p.yPosition, RMul(Float(epoch), p.yVelocity)),
             RAdd(p.xVelocity, RDiv(RMul(Float(epoch), f.x), p.mass)),
             RAdd(p.yVelocity, RDiv(RMul(Float(epoch), f.y), p.mass)))

\* updateFn advancing the position with the velocity after the step
updateFnNewVelocity(p, f) ==
    LET vx == RAdd(p.xVelocity, RDiv(RMul(Float(epoch), f.x), p.mass))
        vy == RAdd(p.yVelocity, RDiv(RMul(Float(epoch), f.y), p.mass))
    IN  particle(p.mass,
                 RAdd(p.xPosition, RMul(Float(epoch), vx)),
                 RAdd(p.yPosition, RMul(Float(epoch), vy)),
                 vx,
                 vy)

\* lines 136-144
updateFn(p, f) ==
    particle(p.mass,
             RAdd(p.xPosition, RMul(Float(epoch), p.xVelocity)),
             RAdd(p.yPosition, RMul(Float(epoch), p.yVelocity)),
             RAdd(p.xVelocity, RDiv(RMul(Float(epoch), f.x), p.mass)),
             RAdd(p.yVelocity, RDiv(RMul(Float(epoch), f.y), p.mass)))

----------------------------------------------------------------------------
(* Images.  A paletted image is the function from the pixels whose colour  *)
(* index is not 0 to that index; its rectangle is (0,0)-(size+1,size+1).   *)

\* image.NewPaletted(image.Rect(0, 0, size+1, size+1), ...), lines 162-167
NewPaletted == [q \in {} |-> 0]

\* (x, y) lies in the image's rectangle: SetColorIndex ignores other points
InRect(x, y) == 0 <= x /\ x < size + 1 /\ 0 <= y /\ y < size + 1

\* img after SetColorIndex(q[1], q[2], c) for every q of pts
SetColorIndex(im, pts, c) ==
    LET inside == {q \in pts : InRect(q[1], q[2])}
    IN  [q \in (DOMAIN im) \cup inside |-> IF q \in inside THEN c ELSE im[q]]

\* drawCircle with the disk's boundary included
drawCircleClosed(im, p, r, c) ==
    SetColorIndex(im,
        {<<size \div 2 + Trunc(p.xPosition) + x, size \div 2 + Trunc(p.yPosition) + y>> :
            <<x, y>> \in {o \in (-r .. r - 1) \X (-r .. r - 1) :
                            o[1] * o[1] + o[2] * o[2] <= r * r}},
        c)

\* lines 146-154
drawCircle(im, p, r, c) ==
    SetColorIndex(im,
        {<<size \div 2 + Trunc(p.xPosition) + x, size \div 2 + Trunc(p.yPosition) + y>> :
            <<x, y>> \in {o \in (-r .. r - 1) \X (-r .. r - 1) :
                            o[1] * o[1] + o[2] * o[2] < r * r}},
        c)

----------------------------------------------------------------------------
(* One iteration of nBody's frame loop, lines 169-180 *)

\* lines 173-178: the inner loop from index j on, totalForce so far in acc
RECURSIVE totalForce(_, _, _, _)
totalForce(ps, p1, j, acc) ==
    IF j > Len(ps) THEN acc
    ELSE LET partialForce == forceFn(p1, ps[j])
         IN  totalForce(ps, p1, j + 1,
                        force(RAdd(acc.x, partialForce.x), RAdd(acc.y, partialForce.y)))

\* lines 170-180: the outer loop from index i on
RECURSIVE rangeParticles(_, _, _, _)
rangeParticles(ps, i, im, updated) ==
    IF i > Len(ps) THEN [img |-> im, updated |-> updated]
    ELSE LET p1 == ps[i]
         IN  rangeParticles(ps, i + 1,
                            drawCircle(im, p1, drawRadius, greenIndex),
                            Append(updated,
                                   updateFn(p1, totalForce(ps, p1, 1, force(Float(0), Float(0))))))

\* the outer loop storing each updated particle back into the slice it ranges over
RECURSIVE rangeInPlace(_, _, _)
rangeInPlace(ps, i, im) ==
    IF i > Len(ps) THEN [img |-> im, updated |-> ps]
    ELSE LET p1 == ps[i]
         IN  rangeInPlace([ps EXCEPT ![i] =
                               updateFn(p1, totalForce(ps, p1, 1, force(Float(0), Float(0))))],
                          i + 1,
                          drawCircle(im, p1, drawRadius, greenIndex))

frameInPlace(ps) == rangeInPlace(ps, 1, NewPaletted)

\* the outer loop putting each updated particle in front of the earlier ones
RECURSIVE rangePrepend(_, _, _, _)
rangePrepend(ps, i, im, updated) ==
    IF i > Len(ps) THEN [img |-> im, updated |-> updated]
    ELSE LET p1 == ps[i]
         IN  rangePrepend(ps, i + 1,
                          drawCircle(im, p1, drawRadius, greenIndex),
                          <<updateFn(p1, totalForce(ps, p1, 1, force(Float(0), Float(0))))>>
                              \o updated)

framePrepend(ps) == rangePrepend(ps, 1, NewPaletted, <<>>)

\* lines 162-180: the frame drawn from ps and the slice that replaces ps
frame(ps) == rangeParticles(ps, 1, NewPaletted, <<>>)

----------------------------------------------------------------------------
(* A run of nBody: requestHandler has started the encoder and called       *)
(* nBody(stdin) for a request of path /3body (lines 41-45).                *)

\* lines 156-159: one iteration of the loop that fills particles.  The two
\* draws of newParticle are taken together.
NewParticle(r) ==
    /\ pc[r] = "init"
    /\ particles' = [particles EXCEPT ![r] = Append(@, newParticle(rngSrc))]
    /\ rngSrc' = RngNext(RngNext(rngSrc))
    /\ rngUsers' = rngUsers \cup {r}
    /\ pc' = [pc EXCEPT ![r] = IF Len(particles[r]) + 1 < count THEN "init" ELSE "loop"]
    /\ UNCHANGED <<ticks, sinkOpen, encodeErr, written, img, call>>

\* lines 161-184: one iteration of the frame loop.  png.Encode fails when the
\* pipe is closed; its result is dropped (line 182) and the loop goes on.
Tick(r) ==
    /\ pc[r] = "loop"
    /\ ticks[r] < MaxTicks
    /\ LET fr == frame(particles[r])
       IN  /\ img' = [img EXCEPT ![r] = fr.img]
           /\ particles' = [particles EXCEPT ![r] = fr.updated]
    /\ written' = [written EXCEPT ![r] = IF sinkOpen[r] THEN @ + 1 ELSE @]
    /\ encodeErr' = [encodeErr EXCEPT ![r] = @ \/ ~sinkOpen[r]]
    /\ ticks' = [ticks EXCEPT ![r] = @ + 1]
    /\ UNCHANGED <<rngSrc, rngUsers, pc, sinkOpen, call>>

\* the encoder started at lines 23-39 exits or closes its stdin
SinkClose(r) ==
    /\ pc[r] # "off"
    /\ sinkOpen[r]
    /\ sinkOpen' = [sinkOpen EXCEPT ![r] = FALSE]
    /\ UNCHANGED <<rngSrc, rngUsers, pc, particles, ticks, encodeErr, written, img, call>>

NoCall == [fn |-> "none"]

\* the state in which the runs of `started` enter nBody
InitRuns(started) ==
    /\ rngSrc \in 1 .. Len(NormStream)
    /\ rngUsers = {}
    /\ pc = [r \in Runs |-> IF r \in started THEN "init" ELSE "off"]
    /\ particles = [r \in Runs |-> <<>>]
    /\ ticks = [r \in Runs |-> 0]
    /\ sinkOpen = [r \in Runs |-> TRUE]
    /\ encodeErr = [r \in Runs |-> FALSE]
    /\ written = [r \in Runs |-> 0]
    /\ img = [r \in Runs |-> NewPaletted]

\* one request for /3body
Init == InitRuns({1}) /\ call = NoCall

Next == \E r \in Runs : NewParticle(r) \/ Tick(r) \/ SinkClose(r)

Spec == Init /\ [][Next]_vars

\* two requests for /3body served at the same time by a process whose source
\* of random numbers is in its first state
InitConc == InitRuns(Runs) /\ rngSrc = 1 /\ call = NoCall

SpecConc == InitConc /\ [][Next]_vars

----------------------------------------------------------------------------
(* Single calls of the closures, on arguments from bounded sets *)

Coords == {Float(i) : i \in -MaxCoord .. MaxCoord}

Masses == {Float(i) : i \in 1 .. MaxMass}

Halves == {Rat(i, 2) : i \in -MaxCoord .. MaxCoord}

\* no run of nBody in progress
Idle == InitRuns({}) /\ rngSrc = 1

InitForce ==
    /\ Idle
    /\ \E x1 \in Coords, y1 \in Coords, x2 \in Coords, y2 \in Coords,
          m1 \in Masses, m2 \in Masses :
          call = [fn |-> "forceFn", done |-> FALSE,
                  p1 |-> particle(m1, x1, y1, Float(0), Float(0)),
                  p2 |-> particle(m2, x2, y2, Float(0), Float(0)),
                  result |-> force(Float(0), Float(0))]

CallForceFn ==
    /\ call.fn = "forceFn"
    /\ ~call.done
    /\ call' = [call EXCEPT !.done = TRUE, !.result = forceFn(call.p1, call.p2)]
    /\ UNCHANGED simVars

SpecForce == InitForce /\ [][CallForceFn]_vars

InitUpdate ==
    /\ Idle
    /\ \E x \in Coords, vx \in Halves, vy \in Halves, fx \in Halves, fy \in Coords,
          m1 \in Masses :
          call = [fn |-> "updateFn", done |-> FALSE,
                  p |-> particle(m1, x, Float(1), vx, vy),
                  f |-> force(fx, fy),
                  result |-> particle(m1, x, Float(1), vx, vy)]

CallUpdateFn ==
    /\ call.fn = "updateFn"
    /\ ~call.done
    /\ call' = [call EXCEPT !.done = TRUE, !.result = updateFn(call.p, call.f)]
    /\ UNCHANGED simVars

SpecUpdate == InitUpdate /\ [][CallUpdateFn]_vars

\* world coordinates at the middle and at both edges of the canvas, whole and not
DrawCoords ==
    {Rat(-817, 2), Float(-400), Rat(-785, 2), Rat(-1, 2), Float(0), Rat(1, 2),
     Rat(15, 2), Float(393), Float(400), Rat(817, 2)}

\* the images drawCircle is called on: the new image, and one with a particle drawn
DrawImages ==
    {NewPaletted,
     drawCircle(NewPaletted, particle(m, Float(5), Float(-395), Float(0), Float(0)),
                drawRadius, greenIndex)}

InitDraw ==
    /\ Idle
    /\ \E x \in DrawCoords, y \in DrawCoords, im \in DrawImages :
          call = [fn |-> "drawCircle", done |-> FALSE,
                  im |-> im,
                  p |-> particle(m, x, y, Float(0), Float(0)),
                  result |-> im]

CallDrawCircle ==
    /\ call.fn = "drawCircle"
    /\ ~call.done
    /\ call' = [call EXCEPT !.done = TRUE,
                            !.result = drawCircle(call.im, call.p, drawRadius, greenIndex)]
    /\ UNCHANGED simVars

SpecDraw == InitDraw /\ [][CallDrawCircle]_vars

----------------------------------------------------------------------------
(* Properties *)

\* the sum of a sequence of values
RECURSIVE RSum(_)
RSum(vs) == IF vs = <<>> THEN Float(0) ELSE RAdd(Head(vs), RSum(Tail(vs)))

\* run r completes an iteration of the frame loop in this step
Ticked(r) == ticks'[r] # ticks[r]

\* C1: once a png.Encode call of a run has returned an error, the run computes
\* no further tick and writes no further frame.
C1_FailedWriteIsTerminal ==
    [][\A r \in Runs :
          encodeErr[r] =>
              /\ ticks'[r] = ticks[r]
              /\ written'[r] = written[r]
              /\ particles'[r] = particles[r]]_vars

\* C2: in every tick the velocity of every particle i changes by epoch / mass
\* times the sum, over all particles j of the sequence before the tick (j = i
\* included), of forceFn(p_i, p_j) taken on that sequence.
C2_ForcesFromPreStep ==
    [][\A r \in Runs :
          Ticked(r) =>
              \A i \in (DOMAIN particles[r]) \cap (DOMAIN particles'[r]) :
                  LET ps == particles[r]
                      fx == RSum([j \in DOMAIN ps |-> forceFn(ps[i], ps[j]).x])
                      fy == RSum([j \in DOMAIN ps |-> forceFn(ps[i], ps[j]).y])
                  IN  /\ RSub(particles'[r][i].xVelocity, ps[i].xVelocity)
                            = RDiv(RMul(Float(epoch), fx), ps[i].mass)
                      /\ RSub(particles'[r][i].yVelocity, ps[i].yVelocity)
                            = RDiv(RMul(Float(epoch), fy), ps[i].mass)]_vars

\* a second tick has been computed from particles that move, so that within
\* the tick updated positions differ from the positions before it
C2_Witness ==
    /\ ticks[1] >= 2
    /\ \E i \in DOMAIN particles[1] :
          particles[1][i].xVelocity # Float(0) /\ particles[1][i].yVelocity # Float(0)

\* C3: for a and b at distinct positions forceFn(a, b) points from a to b and
\* its magnitude is G * mass_a * mass_b / d^2, d the distance between a and b
\* (stated on the squares: |f|^2 = (G * mass_a * mass_b)^2 / (d^2)^2).
C3_InverseSquareMagnitude ==
    (call.fn = "forceFn" /\ call.done) =>
        LET a == call.p1
            b == call.p2
            f == call.result
            dx == RSub(b.xPosition, a.xPosition)
            dy == RSub(b.yPosition, a.yPosition)
            dd == RAdd(RMul(dx, dx), RMul(dy, dy))
            gmm == RMul(RMul(g, a.mass), b.mass)
        IN  dd # Float(0) =>
                /\ RMul(f.x, dy) = RMul(f.y, dx)
                /\ RAdd(RMul(f.x, dx), RMul(f.y, dy)).n > 0
                /\ RAdd(RMul(f.x, f.x), RMul(f.y, f.y))
                      = RDiv(RMul(gmm, gmm), RMul(dd, dd))

C5_ZeroForceWhenCoincident ==
    (call.fn = "forceFn" /\ call.done) =>
        ((call.p1.xPosition = call.p2.xPosition /\ call.p1.yPosition = call.p2.yPosition) =>
            call.result = force(Float(0), Float(0)))

\* forceFn has been called on two different particles at one position
C5_Witness ==
    /\ call.fn = "forceFn" /\ call.done
    /\ call.p1 # call.p2
    /\ call.p1.xPosition = call.p2.xPosition
    /\ call.p1.yPosition = call.p2.yPosition

\* C6: no run reads or writes a variable another run writes: the process-wide
\* source of random numbers, which newParticle reads and advances, is used by
\* one run at most.
C6_NoSharedMutableState == Cardinality(rngUsers) <= 1

\* C7: a tick leaves the number of particles unchanged, count after the
\* initialisation, and the particle at index i after the tick comes from the
\* particle at index i before it: its mass, and its position advanced by
\* epoch times its velocity.
C7_CountAndOrderKept ==
    [][\A r \in Runs :
          Ticked(r) =>
              /\ Len(particles'[r]) = Len(particles[r])
              /\ Len(particles'[r]) = count
              /\ \A i \in DOMAIN particles[r] :
                    /\ particles'[r][i].mass = particles[r][i].mass
                    /\ particles'[r][i].xPosition
                          = RAdd(particles[r][i].xPosition,
                                 RMul(Float(epoch), particles[r][i].xVelocity))
                    /\ particles'[r][i].yPosition
                          = RAdd(particles[r][i].yPosition,
                                 RMul(Float(epoch), particles[r][i].yVelocity))]_vars

\* ticks have replaced a sequence of count particles at pairwise distinct
\* positions, moving
C7_Witness ==
    /\ ticks[1] >= 2
    /\ Len(particles[1]) = count
    /\ \A i, j \in DOMAIN particles[1] :
          i # j => particles[1][i].xPosition # particles[1][j].xPosition
    /\ \A i \in DOMAIN particles[1] : particles[1][i].xVelocity # Float(0)

\* C8: in every reachable state the mass of every particle is m.
C8_MassUnchanged ==
    \A r \in Runs : \A i \in DOMAIN particles[r] : particles[r][i].mass = m

\* every particle has gone through updateFn twice
C8_Witness ==
    /\ ticks[1] >= 2
    /\ Len(particles[1]) = count
    /\ \A i \in DOMAIN particles[1] : particles[1][i].mass = m

\* the whole number t with |t| <= |v| < |t| + 1 and the sign of v
TowardZero(v) ==
    CHOOSE t \in -(2 * size) .. 2 * size :
        /\ Abs(t) * v.d <= Abs(v.n)
        /\ Abs(v.n) < (Abs(t) + 1) * v.d
        /\ t * v.n >= 0

\* C9: drawCircle for a particle at (x, y) sets to the colour index c exactly
\* the pixels (px, py) of the canvas with (px - cx)^2 + (py - cy)^2 < r^2,
\* cx = size/2 + trunc(x), cy = size/2 + trunc(y), r = drawRadius, and leaves
\* every other pixel as it was.
C9_DrawCircleIsOpenDisk ==
    (call.fn = "drawCircle" /\ call.done) =>
        LET cx == size \div 2 + TowardZero(call.p.xPosition)
            cy == size \div 2 + TowardZero(call.p.yPosition)
            r == drawRadius
            disk == {q \in (cx - r - 1 .. cx + r + 1) \X (cy - r - 1 .. cy + r + 1) :
                        /\ q[1] \in 0 .. size
                        /\ q[2] \in 0 .. size
                        /\ (q[1] - cx) * (q[1] - cx) + (q[2] - cy) * (q[2] - cy) < r * r}
        IN  /\ DOMAIN call.result = (DOMAIN call.im) \cup disk
            /\ \A q \in DOMAIN call.result :
                  call.result[q] = IF q \in disk THEN greenIndex ELSE call.im[q]

\* a particle at (0, 0) has been drawn on a new image: the pixel at
\* (size/2, size/2) is set, the pixel drawRadius to its left is not
C9_Witness ==
    /\ call.fn = "drawCircle" /\ call.done
    /\ call.im = NewPaletted
    /\ call.p.xPosition = Float(0)
    /\ call.p.yPosition = Float(0)
    /\ <<size \div 2, size \div 2>> \in DOMAIN call.result
    /\ <<size \div 2 - drawRadius + 1, size \div 2>> \in DOMAIN call.result
    /\ <<size \div 2 - drawRadius, size \div 2>> \notin DOMAIN call.result

\* C10: updateFn(p, f) moves the position by epoch times the velocity of p,
\* changes the velocity by epoch * f / mass, per axis, and returns a particle
\* of the fields mass, position and velocity alone.
C10_ExplicitEulerStep ==
    (call.fn = "updateFn" /\ call.done) =>
        LET p == call.p
            f == call.f
            q == call.result
        IN  /\ DOMAIN q = {"mass", "xPosition", "yPosition", "xVelocity", "yVelocity"}
            /\ RSub(q.xPosition, p.xPosition) = RMul(Float(epoch), p.xVelocity)
            /\ RSub(q.yPosition, p.yPosition) = RMul(Float(epoch), p.yVelocity)
            /\ RMul(RSub(q.xVelocity, p.xVelocity), p.mass) = RMul(Float(epoch), f.x)
            /\ RMul(RSub(q.yVelocity, p.yVelocity), p.mass) = RMul(Float(epoch), f.y)

\* updateFn has been called on a moving particle of mass above 1 under a force
C10_Witness ==
    /\ call.fn = "updateFn" /\ call.done
    /\ call.p.mass # Float(1)
    /\ call.p.xVelocity.n # 0 /\ call.p.yVelocity.n # 0
    /\ call.f.x.n # 0 /\ call.f.y.n # 0
    /\ call.result.xPosition # call.p.xPosition
    /\ call.result.xVelocity # call.p.xVelocity

====
